---- MODULE Spec2Model ----
(***************************************************************************)
(* Model of the HubSpot proxy: the /api/webhook pipeline, /api/hubspot and *)
(* the payload composition, for each copy of the script the repository     *)
(* holds (api/index.js, the two scripts of part_000, part_001, part_002).  *)
(***************************************************************************)
EXTENDS Integers, Sequences, FiniteSets, TLC

VARIABLES
    script,         \* which copy of the script is deployed
    HUBSPOT_TOKEN,  \* process.env.HUBSPOT_TOKEN
    contacts,       \* the CRM's contact records: id -> properties
    deals,          \* the CRM's deal records: id -> properties
    uuids,          \* how many times uuidv4() has been called
    inv,            \* the invocations: one handler execution per slot
    composeIn,      \* arguments of a direct call of a pure function
    composeOut,     \* its result
    composeAgain    \* the result of a second call with the same arguments

vars == <<script, HUBSPOT_TOKEN, contacts, deals, uuids, inv, composeIn, composeOut, composeAgain>>

(***************************************************************************)
(* JavaScript values.  A string is a sequence of one-character strings, so *)
(* that trim, split, slice, padStart and parseInt are computed.            *)
(***************************************************************************)
Undef == [t |-> "undefined"]
Null == [t |-> "null"]
NaN == [t |-> "NaN"]
Str(s) == [t |-> "string", s |-> s]
Num(n) == [t |-> "number", n |-> n]
Bool(b) == [t |-> "boolean", b |-> b]
Obj(o) == [t |-> "object", o |-> o]

Empty == Str(<< >>)

\* ToBoolean: undefined, null, "", 0, NaN and false are falsy.
Truthy(v) ==
    CASE v.t = "undefined" -> FALSE
      [] v.t = "null" -> FALSE
      [] v.t = "NaN" -> FALSE
      [] v.t = "string" -> v.s # << >>
      [] v.t = "number" -> v.n # 0
      [] v.t = "boolean" -> v.b
      [] OTHER -> TRUE

\* a || b
Or(a, b) == IF Truthy(a) THEN a ELSE b

\* o.k for a property map o: undefined when the key is absent.
Get(o, k) == IF k \in DOMAIN o THEN o[k] ELSE Undef

\* A function's result: a returned value or a thrown error.
Return(v) == [ok |-> TRUE, value |-> v]
Throw(e) == [ok |-> FALSE, error |-> e]

\* A string literal of the script, kept as its sequence of words;
\* args are the values a template literal interpolates into it (none in
\* the scripts: every message is a plain literal).
Text(words) == [t |-> "text", words |-> words, args |-> << >>]

\* An Error: its message and the HTTP response axios attaches to it
\* (undefined for an Error thrown by the script itself).
Error(words) == [message |-> Text(words), response |-> Undef]
TypeError == Error(<<"TypeError">>)

WhiteSpace == {" ", "\t", "\n"}

RECURSIVE TrimStart(_)
TrimStart(s) ==
    IF s # << >> /\ Head(s) \in WhiteSpace THEN TrimStart(Tail(s)) ELSE s

RECURSIVE TrimEnd(_)
TrimEnd(s) ==
    IF s # << >> /\ s[Len(s)] \in WhiteSpace
    THEN TrimEnd(SubSeq(s, 1, Len(s) - 1)) ELSE s

\* String.prototype.trim
trim(s) == TrimEnd(TrimStart(s))

DigitChars == <<"0", "1", "2", "3", "4", "5", "6", "7", "8", "9">>
IsDigit(c) == \E i \in 1..10 : DigitChars[i] = c
DigitVal(c) == (CHOOSE i \in 1..10 : DigitChars[i] = c) - 1

\* Number.prototype.toString for an integer.
RECURSIVE NatToString(_)
NatToString(n) ==
    IF n < 10 THEN <<DigitChars[n + 1]>>
    ELSE NatToString(n \div 10) \o <<DigitChars[(n % 10) + 1]>>

toString(n) == IF n < 0 THEN <<"-">> \o NatToString(-n) ELSE NatToString(n)

\* String(value)
String(v) ==
    CASE v.t = "string" -> v.s
      [] v.t = "number" -> toString(v.n)
      [] v.t = "NaN" -> <<"N", "a", "N">>
      [] v.t = "boolean" -> IF v.b THEN <<"t", "r", "u", "e">>
                            ELSE <<"f", "a", "l", "s", "e">>
      [] v.t = "null" -> <<"n", "u", "l", "l">>
      [] v.t = "undefined" -> <<"u", "n", "d", "e", "f", "i", "n", "e", "d">>
      [] OTHER -> <<"[", "o", "b", "j", "e", "c", "t", "]">>

\* String.prototype.padStart(len, pad) for a one-character pad.
RECURSIVE padStart(_, _, _)
padStart(s, len, pad) ==
    IF Len(s) >= len THEN s ELSE padStart(<<pad>> \o s, len, pad)

\* String.prototype.slice(-k)
sliceLast(s, k) == IF Len(s) <= k THEN s ELSE SubSeq(s, Len(s) - k + 1, Len(s))

\* String.prototype.split(sep) for a one-character separator.
RECURSIVE splitFrom(_, _, _)
splitFrom(s, sep, cur) ==
    IF s = << >> THEN <<cur>>
    ELSE IF Head(s) = sep THEN <<cur>> \o splitFrom(Tail(s), sep, << >>)
    ELSE splitFrom(Tail(s), sep, Append(cur, Head(s)))

split(s, sep) == splitFrom(s, sep, << >>)

\* The value of the longest prefix of digits of s, given the value so far.
RECURSIVE DigitsPrefix(_, _)
DigitsPrefix(s, acc) ==
    IF s # << >> /\ IsDigit(Head(s))
    THEN DigitsPrefix(Tail(s), acc * 10 + DigitVal(Head(s)))
    ELSE acc

\* parseInt(value, 10): leading white space is skipped, then an optional
\* sign, then the longest run of digits; NaN when there is no digit.
parseInt(v) ==
    LET s == TrimStart(String(v))
        neg == s # << >> /\ Head(s) = "-"
        u == IF s # << >> /\ Head(s) \in {"-", "+"} THEN Tail(s) ELSE s
    IN  IF u = << >> \/ ~IsDigit(Head(u)) THEN NaN
        ELSE Num((IF neg THEN -1 ELSE 1) * DigitsPrefix(u, 0))

\* sanitizeText without its null default: a value that is no string, or is
\* blank, is handed on as it came.
sanitizeText_passthrough(value) ==
    IF value.t = "string" /\ trim(value.s) # << >>
    THEN Str(trim(value.s)) ELSE value

\* sanitizeText returning the string as it came, not trimmed.
sanitizeText_untrimmed(value) ==
    IF value.t = "string" /\ trim(value.s) # << >>
    THEN value ELSE Null

sanitizeText(value) ==
    IF value.t = "string" /\ trim(value.s) # << >>
    THEN Str(trim(value.s)) ELSE Null

sanitizeString(value) ==
    IF value = Null \/ value = Undef THEN Null
    ELSE Or(Str(trim(String(value))), Null)

\* sanitizeInteger without the isNaN test.
sanitizeInteger_noNaNTest(value) ==
    IF value = Null \/ value = Undef \/ value = Empty THEN Null
    ELSE parseInt(value)

sanitizeInteger(value) ==
    IF value = Null \/ value = Undef \/ value = Empty THEN Null
    ELSE LET parsed == parseInt(value)
         IN  IF parsed = NaN THEN Null ELSE parsed

(***************************************************************************)
(* Payload composition.  now is the Date the function reads: date (1..31), *)
(* month (0..11) and fullYear; uuid is what uuidv4() returns if called.    *)
(***************************************************************************)
months ==
    << <<"J", "A", "N">>, <<"F", "E", "B">>, <<"M", "A", "R">>,
       <<"A", "P", "R">>, <<"M", "A", "Y">>, <<"J", "U", "N">>,
       <<"J", "U", "L">>, <<"A", "U", "G">>, <<"S", "E", "P">>,
       <<"O", "C", "T">>, <<"N", "O", "V">>, <<"D", "E", "C">> >>

\* `${dd}-${months[m]}-${yy}`
currentDate(now) ==
    padStart(toString(now.date), 2, "0") \o <<"-">> \o months[now.month + 1]
        \o <<"-">> \o sliceLast(toString(now.fullYear), 2)

\* `${dd}/${mm}/${yyyy}`
formattedDate(now) ==
    padStart(toString(now.date), 2, "0") \o <<"/">>
        \o padStart(toString(now.month + 1), 2, "0") \o <<"/">>
        \o toString(now.fullYear)

\* api/index.js: prepareSurveyPayload(contactData, dealData)
prepareSurveyPayload_api(contactData, dealData, now, uuid) ==
    LET idnps == Get(contactData, "idnps")
    IN  IF Truthy(idnps) /\ idnps.t # "string" THEN Throw(TypeError)
        ELSE Return([
            idnps |-> IF Truthy(idnps) /\ trim(idnps.s) # << >>
                      THEN idnps ELSE uuid,
            fechaencuesta |-> Or(Get(contactData, "fechaencuesta"), Str(currentDate(now))),
            fecha_encuesta |-> Str(formattedDate(now)),
            valornps |-> Or(Get(contactData, "valornps"), Empty),
            concepto |-> Or(Get(dealData, "concepto"), Empty),
            local |-> Or(Get(dealData, "local"), Empty),
            provincia |-> Or(Get(dealData, "provincia_homologada"),
                             Or(Get(dealData, "provincia"), Empty)),
            region |-> Or(Get(dealData, "region"), Empty),
            centro |-> Or(Get(dealData, "centro"), Empty),
            identificacion |-> Or(Get(contactData, "contact_id"), Empty),
            nombres |-> Or(Get(contactData, "firstname"), Empty),
            apellidos |-> Or(Get(contactData, "lastname"), Empty),
            mejoras |-> Or(Get(contactData, "mejoras"), Empty),
            comentario |-> Or(Get(contactData, "comentario"), Empty),
            telefono |-> Or(Get(contactData, "phone"), Empty),
            email |-> Or(Get(contactData, "email"),
                         Or(Get(contactData, "email_principal"), Empty)),
            fechaenvio |-> Or(Get(contactData, "fechamail"), Str(currentDate(now))),
            genero |-> sanitizeText(Get(contactData, "genero")),
            edad |-> sanitizeString(Get(contactData, "edadnps")),
            ropa |-> sanitizeText(Get(contactData, "ropa")),
            zapatos |-> sanitizeText(Get(contactData, "zapatos")),
            talla_ropa |-> sanitizeText(Get(contactData, "talla_ropa")),
            adolecentes_adultos |-> sanitizeText(Get(contactData, "adolecentes_adultos")),
            infantes |-> sanitizeText(Get(contactData, "infantes")),
            ninos |-> sanitizeText(Get(contactData, "ninos")),
            talla_zapatos |-> sanitizeString(Get(contactData, "talla_zapatos")),
            actividad |-> sanitizeText(Get(contactData, "actividad")),
            actividad_otros |-> sanitizeText(Get(contactData, "actividad_otros"))])

\* part_000, first script: the fechamail D/M/YYYY of the contact rewritten
\* as DD-MMM-YY.  year.slice throws when the string has fewer than three
\* parts; months[monthIndex] is undefined outside 0..11 and is then
\* rendered "undefined" by the template literal.
fmail_p0a(fmailRaw) ==
    IF ~Truthy(fmailRaw) THEN Return(Empty)
    ELSE IF fmailRaw.t # "string" THEN Throw(TypeError)
    ELSE LET parts == split(fmailRaw.s, "/")
             day == parts[1]
             monthIndex == IF Len(parts) < 2 THEN NaN
                           ELSE LET m == parseInt(Str(parts[2]))
                                IN  IF m = NaN THEN NaN ELSE Num(m.n - 1)
             monthName == IF monthIndex # NaN /\ monthIndex.n \in 0..11
                          THEN months[monthIndex.n + 1] ELSE String(Undef)
         IN  IF Len(parts) < 3 THEN Throw(TypeError)
             ELSE Return(Str(padStart(day, 2, "0") \o <<"-">> \o monthName
                             \o <<"-">> \o sliceLast(parts[3], 2)))

\* part_000, first script: prepareSurveyPayload(surveyData, contactData)
prepareSurveyPayload_p0a(surveyData, contactData, now, uuid) ==
    LET fmail == fmail_p0a(Get(contactData, "fechamail"))
    IN  IF ~fmail.ok THEN fmail
        ELSE Return([
            idnps |-> uuid,
            fechaencuesta |-> Str(currentDate(now)),
            valornps |-> Or(Get(surveyData, "valornps"), Empty),
            nrodocumento |-> Empty,
            concepto |-> Or(Get(surveyData, "concepto"), Empty),
            local |-> Or(Get(surveyData, "centro"), Empty),
            provincia |-> Or(Get(surveyData, "provincia_homologada"), Empty),
            region |-> Or(Get(surveyData, "region"), Empty),
            identificacion |-> Or(Get(contactData, "contact_id"), Empty),
            nombres |-> Or(Get(contactData, "firstname"), Empty),
            apellidos |-> Or(Get(contactData, "lastname"), Empty),
            mejoras |-> Or(Get(surveyData, "mejoras"), Empty),
            comentario |-> Or(Get(surveyData, "comentario"), Empty),
            telefono |-> Or(Get(contactData, "phone"), Empty),
            email |-> Or(Get(contactData, "email"),
                         Or(Get(contactData, "email_principal"), Empty)),
            localmcu |-> Or(Get(surveyData, "localmcu"),
                            Or(Get(surveyData, "centro"), Empty)),
            fechaenvio |-> Or(fmail.value, Str(currentDate(now))),
            genero |-> sanitizeText(Get(surveyData, "genero")),
            edad |-> sanitizeString(Get(surveyData, "edad")),
            ropa |-> sanitizeText(Get(surveyData, "ropa")),
            zapatos |-> sanitizeText(Get(surveyData, "zapatos")),
            talla_ropa |-> sanitizeText(Get(surveyData, "talla_ropa")),
            adolecentes_adultos |-> sanitizeText(Get(surveyData, "adolecentes_adultos")),
            infantes |-> sanitizeText(Get(surveyData, "infantes")),
            ninos |-> sanitizeText(Get(surveyData, "ninos")),
            talla_zapatos |-> sanitizeString(Get(surveyData, "talla_zapatos")),
            actividad |-> sanitizeText(Get(surveyData, "actividad")),
            actividad_otros |-> sanitizeText(Get(surveyData, "actividad_otros"))])

\* part_000, second script: prepareSurveyPayload(surveyData, contactData)
prepareSurveyPayload_p0b(surveyData, contactData, now, uuid) ==
    Return([
        idnps |-> uuid,
        fechaencuesta |-> Or(Get(surveyData, "fechaencuesta"), Str(currentDate(now))),
        valornps |-> Or(Get(surveyData, "valornps"), Empty),
        nrodocumento |-> Or(Get(contactData, "contact_id"), Empty),
        concepto |-> Or(Get(surveyData, "concepto"), Empty),
        local |-> Or(Get(surveyData, "local"), Empty),
        provincia |-> Or(Get(surveyData, "provincia"), Empty),
        region |-> Or(Get(surveyData, "region"), Empty),
        identificacion |-> Or(Get(contactData, "contact_id"), Empty),
        nombres |-> Or(Get(contactData, "firstname"), Empty),
        apellidos |-> Or(Get(contactData, "lastname"), Empty),
        mejoras |-> Or(Get(surveyData, "mejoras"), Empty),
        comentario |-> Or(Get(surveyData, "comentario"), Empty),
        telefono |-> Or(Get(contactData, "phone"), Empty),
        email |-> Or(Get(contactData, "email"),
                     Or(Get(contactData, "email_principal"), Empty)),
        localmcu |-> Or(Get(surveyData, "localmcu"),
                        Or(Get(surveyData, "local"), Empty)),
        fechaenvio |-> Str(currentDate(now)),
        genero |-> Or(Get(surveyData, "genero"), Empty),
        edad |-> Or(Get(surveyData, "edad"), Empty),
        ropa |-> Or(Get(surveyData, "ropa"), Empty),
        zapatos |-> Or(Get(surveyData, "zapatos"), Empty),
        talla_ropa |-> Or(Get(surveyData, "talla_ropa"), Empty),
        adolecentes_adultos |-> Or(Get(surveyData, "adolecentes_adultos"), Empty),
        infantes |-> Or(Get(surveyData, "infantes"), Empty),
        ninos |-> Or(Get(surveyData, "ninos"), Empty),
        talla_zapatos |-> Or(Get(surveyData, "talla_zapatos"), Empty),
        actividad |-> Or(Get(surveyData, "actividad"), Empty),
        actividad_otros |-> Or(Get(surveyData, "actividad_otros"), Empty)])

\* part_001: prepareSurveyPayload(dealData, contactData)
prepareSurveyPayload_p1(dealData, contactData, now, uuid) ==
    Return([
        idnps |-> Or(Get(contactData, "idnps"), uuid),
        fechaencuesta |-> Or(Get(contactData, "fechaencuesta"), Str(currentDate(now))),
        valornps |-> sanitizeInteger(Get(contactData, "valornps")),
        nrodocumento |-> Empty,
        concepto |-> Or(Get(dealData, "concepto"), Empty),
        local |-> Or(Get(dealData, "centro"), Or(Get(dealData, "local"), Empty)),
        provincia |-> Or(Get(dealData, "provincia_homologada"),
                         Or(Get(dealData, "provincia"), Empty)),
        region |-> Or(Get(dealData, "region"), Empty),
        identificacion |-> Or(Get(contactData, "contact_id"), Empty),
        nombres |-> Or(Get(contactData, "firstname"), Empty),
        apellidos |-> Or(Get(contactData, "lastname"), Empty),
        mejoras |-> Or(Get(contactData, "mejoras"), Empty),
        comentario |-> Or(Get(contactData, "comentario"), Empty),
        telefono |-> Or(Get(contactData, "phone"), Empty),
        email |-> Or(Get(contactData, "email"),
                     Or(Get(contactData, "email_principal"), Empty)),
        localmcu |-> Or(Get(dealData, "centro"), Or(Get(dealData, "local"), Empty)),
        fechaenvio |-> Or(Get(contactData, "fechamail"), Str(currentDate(now))),
        genero |-> sanitizeText(Get(contactData, "genero")),
        edad |-> sanitizeInteger(Get(contactData, "edadnps")),
        ropa |-> sanitizeText(Get(contactData, "ropa")),
        zapatos |-> sanitizeText(Get(contactData, "zapatos")),
        talla_ropa |-> sanitizeText(Get(contactData, "talla_ropa")),
        adolecentes_adultos |-> sanitizeText(Get(contactData, "adolecentes_adultos")),
        infantes |-> sanitizeText(Get(contactData, "infantes")),
        ninos |-> sanitizeText(Get(contactData, "ninos")),
        talla_zapatos |-> sanitizeText(Get(contactData, "talla_zapatos")),
        actividad |-> sanitizeText(Get(contactData, "actividad")),
        actividad_otros |-> sanitizeText(Get(contactData, "actividad_otros"))])

(***************************************************************************)
(* The copies of the script and what each one serves.                      *)
(***************************************************************************)
API == "api/index.js"
P0A == "part_000 (lines 1-449)"
P0B == "part_000 (lines 451-837)"
P1 == "part_001"
P2 == "part_002"
Scripts == {API, P0A, P0B, P1, P2}

WEBHOOK == "/api/webhook"
HUBSPOT == "/api/hubspot"

TEST_DEAL == "/test/deal-data"
TEST_CONTACT == "/test/contact-data"
TEST_SEND == "/test/send-survey"

\* The diagnostic routes of each script.
TestRoutes(v) ==
    CASE v = API -> {TEST_CONTACT, TEST_DEAL}
      [] v \in {P0A, P1} -> {TEST_DEAL, TEST_CONTACT, TEST_SEND}
      [] OTHER -> {}

Routes(v) ==
    CASE v = API -> {WEBHOOK}
      [] v = P2 -> {HUBSPOT}
      [] OTHER -> {HUBSPOT, WEBHOOK}

\* The awaited steps of a handler's try block, in program order.
Steps_api == <<"getContactData", "getDealData", "prepareSurveyPayload",
               "updateContactData", "getAuthToken", "sendSurveyToAPI">>
Steps_p0a == <<"getDealData", "getContactData", "getAuthToken",
               "prepareSurveyPayload", "sendSurveyToAPI", "axios.patch">>
Steps_p0b == <<"getDealData", "getContactData", "getAuthToken",
               "prepareSurveyPayload", "sendSurveyToAPI">>
\* Steps_p1 with the token requested before the records are fetched.
Steps_p1_tokenFirst == <<"getAuthToken", "getDealData", "getContactData",
                         "prepareSurveyPayload", "sendSurveyToAPI">>
Steps_p1 == <<"getDealData", "getContactData", "getAuthToken",
              "prepareSurveyPayload", "sendSurveyToAPI">>
Steps_hubspot == <<"axios.patch">>

Steps_test_deal == <<"getDealData">>
\* Steps_test_contact followed by the write-back of the webhook.
Steps_test_contact_update == <<"getContactData", "updateContactData">>

Steps_test_contact == <<"getContactData">>
Steps_test_send == <<"getAuthToken", "prepareSurveyPayload", "sendSurveyToAPI">>

Steps(v, route) ==
    CASE route = HUBSPOT -> Steps_hubspot
      [] route = TEST_DEAL -> Steps_test_deal
      [] route = TEST_CONTACT -> Steps_test_contact
      [] route = TEST_SEND -> Steps_test_send
      [] v = API -> Steps_api
      [] v = P0A -> Steps_p0a
      [] v = P0B -> Steps_p0b
      [] OTHER -> Steps_p1

\* The properties each search asks the CRM for.
ContactProperties(v) ==
    CASE v = API -> {"contact_id", "firstname", "lastname", "phone", "email",
                     "email_principal", "fechamail", "fechaencuesta", "valornps",
                     "mejoras", "comentario", "genero", "edadnps", "ropa",
                     "zapatos", "talla_ropa", "adolecentes_adultos", "infantes",
                     "ninos", "talla_zapatos", "actividad", "actividad_otros",
                     "idnps", "fecha_encuesta"}
      [] v = P0A -> {"contact_id", "firstname", "lastname", "phone", "email",
                     "email_principal", "fechamail"}
      [] v = P0B -> {"contact_id", "firstname", "lastname", "phone", "email",
                     "email_principal"}
      [] OTHER -> {"idnps", "contact_id", "firstname", "lastname", "phone",
                   "email", "email_principal", "fechamail", "valornps", "mejoras",
                   "comentario", "genero", "edadnps", "ropa", "zapatos",
                   "talla_ropa", "adolecentes_adultos", "infantes", "ninos",
                   "talla_zapatos", "actividad", "actividad_otros",
                   "fechaencuesta"}

DealProperties(v) ==
    IF v \in {P0A, P0B}
    THEN {"fechaencuesta", "valornps", "concepto", "local", "provincia",
          "region", "mejoras", "comentario", "centro", "provincia_homologada",
          "genero", "edad", "ropa", "zapatos", "talla_ropa",
          "adolecentes_adultos", "infantes", "ninos", "talla_zapatos",
          "actividad", "actividad_otros"}
    ELSE {"concepto", "local", "provincia", "region", "centro",
          "provincia_homologada"}

\* The messages of the errors the fetchers throw on an empty result
\* (the accent of "encontro" is dropped).
ContactNotFound(v) ==
    IF v \in {P0A, P0B}
    THEN <<"No", "se", "encontro", "el", "contacto", "con", "los", "datos", "basicos">>
    ELSE <<"No", "se", "encontro", "el", "contacto">>

DealNotFound(v) ==
    IF v \in {P0A, P0B}
    THEN <<"No", "se", "encontro", "el", "contacto", "con", "los", "datos", "de", "encuesta">>
    ELSE <<"No", "se", "encontro", "el", "negocio">>

NoAuthToken(v) ==
    IF v = API
    THEN <<"No", "se", "pudo", "obtener", "el", "token", "externo">>
    ELSE <<"No", "se", "pudo", "obtener", "el", "token", "de", "autenticacion">>

(***************************************************************************)
(* Outbound requests.  url is the endpoint, id the record the request is   *)
(* about (the filter value of a search, the record of a PATCH), data the   *)
(* properties asked for or sent, auth the bearer token.                    *)
(***************************************************************************)
Request(fn, method, url, id, data, auth) ==
    [fn |-> fn, method |-> method, url |-> url, id |-> id, data |-> data,
     auth |-> auth, status |-> "inflight"]

getContactData_request(v, contactId, token) ==
    Request("getContactData", "POST", <<"crm", "contacts", "search">>,
            contactId, ContactProperties(v), token)

getDealData_request(v, dealId, token) ==
    Request("getDealData", "POST", <<"crm", "deals", "search">>,
            dealId, DealProperties(v), token)

updateContactData_request(contactId, data, token) ==
    Request("updateContactData", "PATCH", <<"crm", "contacts">>,
            contactId, data, token)

getAuthToken_request ==
    Request("getAuthToken", "POST", <<"ext", "token">>, Undef,
            [username |-> Text(<<"npshubspot">>), password |-> Text(<<"Hubspot">>)],
            Undef)

sendSurveyToAPI_request(payload, token) ==
    Request("sendSurveyToAPI", "POST", <<"ext", "encuesta">>, Undef, payload, token)

\* part_000, first script: the PATCH of the deal after the submission.
patchDeal_request(dealId, idnps, now, token) ==
    Request("axios.patch", "PATCH", <<"crm", "deals">>, dealId,
            Obj([idnps |-> idnps, fechaencuesta |-> Str(currentDate(now))]), token)

\* hubspot_request with the data wrapped a second time in properties.
hubspot_request_nested(v, id, data, token) ==
    Request("axios.patch", "PATCH",
            IF v = P1 THEN <<"crm", "contacts">> ELSE <<"crm", "deals">>,
            id, Obj([properties |-> data]), token)

\* /api/hubspot: the PATCH of record id with the data of the body
\* (a contact in part_001, a deal in the other scripts).
hubspot_request(v, id, data, token) ==
    Request("axios.patch", "PATCH",
            IF v = P1 THEN <<"crm", "contacts">> ELSE <<"crm", "deals">>,
            id, data, token)

(***************************************************************************)
(* What the servers answer.  An outcome is the environment's choice.       *)
(***************************************************************************)
FailureOutcomes == {"http_error", "http_error_no_body", "network_error"}

IsSearch(req) == Len(req.url) = 3
IsPatch(req) == req.method = "PATCH"

\* The CRM's records of the object type a request addresses.
Store(req, cs, ds) == IF req.url[2] = "contacts" THEN cs ELSE ds

\* A PATCH of a record the CRM does not hold cannot succeed.
Outcomes(req, cs, ds) ==
    FailureOutcomes
    \cup (IF req.fn = "getAuthToken" THEN {"no_access_token"} ELSE {})
    \cup (IF IsPatch(req) /\ req.id \notin DOMAIN Store(req, cs, ds) THEN {} ELSE {"ok"})

\* The error axios throws for a failed request.
AxiosError(outcome) ==
    CASE outcome = "http_error" ->
            [message |-> Text(<<"Request", "failed", "with", "status", "code">>),
             response |-> [data |-> Obj([message |-> Text(<<"upstream">>)])]]
      [] outcome = "http_error_no_body" ->
            [message |-> Text(<<"Request", "failed", "with", "status", "code">>),
             response |-> [data |-> Empty]]
      [] OTHER ->
            [message |-> Text(<<"Network", "Error">>), response |-> Undef]

\* The CRM returns, for a record, the requested properties: the stored
\* value, or null for a property the record does not carry.
Properties(record, requested) ==
    [k \in requested |-> IF k \in DOMAIN record THEN record[k] ELSE Null]

\* The CRM's record after a PATCH of properties.
Patched(record, properties) ==
    [k \in DOMAIN record \cup DOMAIN properties |->
        IF k \in DOMAIN properties THEN properties[k] ELSE record[k]]

\* response.data of a request that did not fail.
ResponseData(req, outcome, cs, ds) ==
    CASE IsSearch(req) ->
            [results |->
                IF req.id \in DOMAIN Store(req, cs, ds)
                THEN <<[properties |-> Properties(Store(req, cs, ds)[req.id], req.data)]>>
                ELSE << >>]
      [] req.fn = "getAuthToken" /\ outcome = "ok" ->
            [access_token |-> Str(<<"T">>)]
      [] req.fn = "getAuthToken" ->
            [detail |-> Text(<<"denied">>)]
      [] OTHER -> [ack |-> Text(<<"ok">>)]

(***************************************************************************)
(* The functions' code after their await: what each returns or throws for  *)
(* the response.data it is given.                                          *)
(***************************************************************************)
getContactData(v, data) ==
    IF Len(data.results) > 0 THEN Return(data.results[1].properties)
    ELSE Throw(Error(ContactNotFound(v)))

getDealData(v, data) ==
    IF Len(data.results) > 0 THEN Return(data.results[1].properties)
    ELSE Throw(Error(DealNotFound(v)))

\* getAuthToken returning whatever access_token is, without the check.
getAuthToken_noCheck(v, data) == Return(Get(data, "access_token"))

getAuthToken(v, data) ==
    IF Truthy(Get(data, "access_token")) THEN Return(data.access_token)
    ELSE Throw(Error(NoAuthToken(v)))

sendSurveyToAPI(data) == Return(Obj(data))

updateContactData(data) == Return(Undef)

(***************************************************************************)
(* The handlers.  An invocation is a record: pc ("idle", "await", "done"), *)
(* the route and body of its request, the step whose call is in flight,    *)
(* the handler's local variables, the outbound calls it has issued (each   *)
(* "inflight", "ok" or "failed") and the response it has sent.             *)
(***************************************************************************)
NoResponse == [status |-> 0, body |-> Undef]

Idle ==
    [pc |-> "idle", route |-> "", body |-> Undef, step |-> 0,
     hubspotToken |-> Undef, contactData |-> Undef, dealData |-> Undef,
     surveyPayload |-> Undef, authToken |-> Undef, result |-> Undef,
     calls |-> << >>, res |-> NoResponse]

\* The clock: new Date().
Today == [date |-> 6, month |-> 10, fullYear |-> 2026]

\* new Date().toISOString()
toISOString(now) == [t |-> "ISO-8601", of |-> now]

\* The n-th value uuidv4() returns.
Uuid(n) == Str(<<"u", "u", "i", "d", "-">> \o toString(n))

\* JSON.stringify drops the keys whose value is undefined.
Json(body) == [k \in {j \in DOMAIN body : body[j] # Undef} |-> body[k]]

\* Respond without its return: the response is sent and the handler is
\* left where it was.
Respond_noReturn(l, status, body) ==
    [l EXCEPT !.res = [status |-> status, body |-> Json(body)]]

\* res.status(status).json(body)
Respond(l, status, body) ==
    [l EXCEPT !.pc = "done", !.res = [status |-> status, body |-> Json(body)]]

\* How a 400 reports a field as received or not.
Received(v, value) ==
    CASE v = API -> Bool(Truthy(value))
      [] v = P0B \/ v = P2 -> Text(<<IF Truthy(value) THEN "check-mark" ELSE "cross-mark">>)
      [] OTHER -> Text(<<IF Truthy(value) THEN "true" ELSE "false">>)

\* if (!dealId || !contactId) return res.status(400).json(...)
webhook_400(v, body) ==
    [error |-> Text(<<"Faltan", "IDs", "requeridos">>),
     required |-> Obj([dealId |-> Text(<<"string">>), contactId |-> Text(<<"string">>)]),
     received |-> Obj([dealId |-> Received(v, Get(body, "dealId")),
                       contactId |-> Received(v, Get(body, "contactId"))])]

\* if (!id || !data) return res.status(400).json(...)
hubspot_400(v, body) ==
    [error |-> Text(<<"Faltan", "datos", "requeridos">>),
     required |-> Obj([id |-> Text(<<"string">>), data |-> Text(<<"object">>)]),
     received |-> Obj([id |-> Received(v, Get(body, "id")),
                       data |-> Received(v, Get(body, "data"))])]

\* if (!hubspotToken) return res.status(500).json(...)
token_500 ==
    [error |-> Text(<<"Token", "de", "HubSpot", "no", "configurado", "en",
                      "variables", "de", "entorno">>)]

\* The catch block without the fallback to error.message.
catch_noFallback(l, error) ==
    Respond(l, 500,
        [error |-> IF l.route = WEBHOOK
                   THEN Text(<<"Error", "al", "procesar", "webhook">>)
                   ELSE Text(<<"Error", "al", "comunicarse", "con", "HubSpot">>),
         details |-> IF error.response = Undef THEN Undef
                     ELSE error.response.data,
         timestamp |-> toISOString(Today)])

\* The catch block undoing a write: after a PATCH that succeeded it issues
\* a PATCH of the same record that clears the properties written.
catch_rollback(l, error) ==
    IF \E i \in 1..Len(l.calls) :
          l.calls[i].method = "PATCH" /\ l.calls[i].status = "ok"
    THEN LET i == CHOOSE i \in 1..Len(l.calls) :
                      l.calls[i].method = "PATCH" /\ l.calls[i].status = "ok"
         IN  [l EXCEPT !.pc = "await",
                       !.calls = Append(@,
                           [l.calls[i] EXCEPT
                               !.data = Obj([k \in DOMAIN l.calls[i].data.o |-> Null]),
                               !.status = "inflight"])]
    ELSE Respond(l, 500,
            [error |-> Text(<<"Error", "al", "procesar", "webhook">>),
             details |-> Or(IF error.response = Undef THEN Undef
                            ELSE error.response.data,
                            error.message),
             timestamp |-> toISOString(Today)])

\* The catch block of a handler; that of a /test route answers the
\* error's message alone.
catch(l, error) ==
    IF l.route \notin {WEBHOOK, HUBSPOT}
    THEN Respond(l, 500, [error |-> error.message])
    ELSE
    Respond(l, 500,
        [error |-> IF l.route = WEBHOOK
                   THEN Text(<<"Error", "al", "procesar", "webhook">>)
                   ELSE Text(<<"Error", "al", "comunicarse", "con", "HubSpot">>),
         details |-> Or(IF error.response = Undef THEN Undef
                        ELSE error.response.data,
                        error.message),
         timestamp |-> toISOString(Today)])

\* The steps object of the webhook's 200.
StepFlags(v) ==
    CASE v = API ->
            [contactDataRetrieved |-> Text(<<"ok">>), dealDataRetrieved |-> Text(<<"ok">>),
             contactUpdated |-> Text(<<"ok">>), authTokenObtained |-> Text(<<"ok">>),
             surveySent |-> Text(<<"ok">>)]
      [] v = P0A ->
            [surveyDataRetrieved |-> Text(<<"true">>), contactDataRetrieved |-> Text(<<"true">>),
             authTokenObtained |-> Text(<<"true">>), surveySent |-> Text(<<"true">>)]
      [] v = P0B ->
            [surveyDataRetrieved |-> Text(<<"check-mark">>),
             contactDataRetrieved |-> Text(<<"check-mark">>),
             authTokenObtained |-> Text(<<"check-mark">>),
             surveySent |-> Text(<<"check-mark">>)]
      [] OTHER ->
            [dealDataRetrieved |-> Text(<<"ok">>), contactDataRetrieved |-> Text(<<"ok">>),
             authTokenObtained |-> Text(<<"ok">>), surveySent |-> Text(<<"ok">>)]

\* return res.json({success: true, ...}) of the webhook.
webhook_200(v, l) ==
    [success |-> Bool(TRUE),
     message |-> Text(<<"Encuesta", "procesada", "y", "enviada", "exitosamente">>),
     dealId |-> Get(l.body, "dealId"),
     contactId |-> Get(l.body, "contactId"),
     processedAt |-> toISOString(Today),
     steps |-> Obj(StepFlags(v)),
     result |-> l.result]

\* return res.json({success: true, ...}) of /api/hubspot.
hubspot_200(v, l) ==
    LET common ==
            [success |-> Bool(TRUE),
             message |-> Text(<<"actualizado", "exitosamente", "en", "HubSpot">>),
             updatedAt |-> toISOString(Today),
             propertiesUpdated |-> Num(Cardinality(DOMAIN l.body.data.o))]
        key == IF v = P1 THEN "contactId" ELSE "dealId"
    IN  [k \in DOMAIN common \cup {key} |->
            IF k = key THEN l.body.id ELSE common[k]]

\* res.json({success: true, ...}) of a /test route.
test_200(l) ==
    CASE l.route = TEST_DEAL -> [success |-> Bool(TRUE), data |-> Obj(l.dealData)]
      [] l.route = TEST_CONTACT -> [success |-> Bool(TRUE), data |-> Obj(l.contactData)]
      [] OTHER -> [success |-> Bool(TRUE), payloadSent |-> Obj(l.surveyPayload),
                   response |-> l.result]

\* The body of a handler's 200.
Success(v, l) ==
    CASE l.route = WEBHOOK -> webhook_200(v, l)
      [] l.route = HUBSPOT -> hubspot_200(v, l)
      [] OTHER -> test_200(l)

\* The call of prepareSurveyPayload in a handler, with the arguments in
\* the order the script passes them.  Reading a property of undefined
\* (a record /test/send-survey did not receive) throws.
prepareSurveyPayload(v, l, now, uuid) ==
    CASE l.contactData = Undef \/ l.dealData = Undef -> Throw(TypeError)
      [] v = API -> prepareSurveyPayload_api(l.contactData, l.dealData, now, uuid)
      [] v = P0A -> prepareSurveyPayload_p0a(l.dealData, l.contactData, now, uuid)
      [] v = P0B -> prepareSurveyPayload_p0b(l.dealData, l.contactData, now, uuid)
      [] OTHER -> prepareSurveyPayload_p1(l.dealData, l.contactData, now, uuid)

\* The request an awaited step sends, built from the handler's variables.
\* The second script of part_000 passes contactId to getDealData.
StepRequest(v, l, step, now) ==
    CASE step = "getContactData" ->
            getContactData_request(v, Get(l.body, "contactId"), l.hubspotToken)
      [] step = "getDealData" ->
            getDealData_request(v,
                IF v = P0B THEN Get(l.body, "contactId") ELSE Get(l.body, "dealId"),
                l.hubspotToken)
      [] step = "updateContactData" ->
            updateContactData_request(Get(l.body, "contactId"),
                                      Obj(l.surveyPayload), l.hubspotToken)
      [] step = "getAuthToken" -> getAuthToken_request
      [] step = "sendSurveyToAPI" ->
            sendSurveyToAPI_request(l.surveyPayload, l.authToken)
      [] OTHER ->
            IF l.route = HUBSPOT
            THEN hubspot_request(v, Get(l.body, "id"), Get(l.body, "data"), l.hubspotToken)
            ELSE patchDeal_request(Get(l.body, "dealId"), l.surveyPayload.idnps,
                                   now, l.hubspotToken)

\* What the awaited function returns or throws for response.data.
StepReturn(v, step, data) ==
    CASE step = "getContactData" -> getContactData(v, data)
      [] step = "getDealData" -> getDealData(v, data)
      [] step = "getAuthToken" -> getAuthToken(v, data)
      [] step = "sendSurveyToAPI" -> sendSurveyToAPI(data)
      [] step = "updateContactData" -> updateContactData(data)
      [] OTHER -> Return(Obj(data))

\* const x = await f(...): the variable the result is bound to.
Bind(l, step, value) ==
    CASE step = "getContactData" -> [l EXCEPT !.contactData = value]
      [] step = "getDealData" -> [l EXCEPT !.dealData = value]
      [] step = "getAuthToken" -> [l EXCEPT !.authToken = value]
      [] step = "sendSurveyToAPI" -> [l EXCEPT !.result = value]
      [] OTHER -> l

\* axios.post / axios.patch is called: the handler is suspended at step i.
Issue(l, i, req) ==
    [l EXCEPT !.pc = "await", !.step = i, !.calls = Append(@, req)]

\* The call the invocation awaits (the last one it issued).
CurrentCall(l) == l.calls[Len(l.calls)]

\* The awaited step i starts: its request is sent.
IssueStep(v, l, i, now) ==
    Issue(l, i, StepRequest(v, l, Steps(v, l.route)[i], now))

\* const surveyPayload = prepareSurveyPayload(...), which returned or
\* threw p, is synchronous: the step after it starts at once.
Composed(v, l, i, now, p) ==
    IF ~p.ok THEN catch(l, p.error)
    ELSE IssueStep(v, [l EXCEPT !.surveyPayload = p.value], i + 1, now)

\* RunFrom answering before the last step.
RunFrom_early(v, l, i, now, uuid) ==
    IF i >= Len(Steps(v, l.route))
    THEN Respond(l, 200, Success(v, l))
    ELSE IF Steps(v, l.route)[i] = "prepareSurveyPayload"
    THEN Composed(v, l, i, now, prepareSurveyPayload(v, l, now, uuid))
    ELSE IssueStep(v, l, i, now)

\* The handler runs from step i to its next await or to its response.
RunFrom(v, l, i, now, uuid) ==
    IF i > Len(Steps(v, l.route))
    THEN Respond(l, 200, Success(v, l))
    ELSE IF Steps(v, l.route)[i] = "prepareSurveyPayload"
    THEN Composed(v, l, i, now, prepareSurveyPayload(v, l, now, uuid))
    ELSE IssueStep(v, l, i, now)

\* missingIds with && for ||.
missingIds_and(body) ==
    ~Truthy(Get(body, "dealId")) /\ ~Truthy(Get(body, "contactId"))

\* if (!dealId || !contactId)
missingIds(body) ==
    ~Truthy(Get(body, "dealId")) \/ ~Truthy(Get(body, "contactId"))

\* if (!id || !data)
missingData(body) ==
    ~Truthy(Get(body, "id")) \/ ~Truthy(Get(body, "data"))

\* noToken with the check left out.
noToken_never(token) == FALSE

\* if (!hubspotToken)
noToken(token) == ~Truthy(token)

\* if (!dealId || !token), if (!contactId || !token): the /test fetch
\* routes of part_000 and part_001; api/index.js has no such check.
missingTestInput(v, route, body, token) ==
    /\ v # API
    /\ \/ ~Truthy(Get(body, IF route = TEST_DEAL THEN "dealId" ELSE "contactId"))
       \/ ~Truthy(token)

test_400(route) ==
    [error |-> Text(<<IF route = TEST_DEAL THEN "dealId" ELSE "contactId",
                      "o", "token", "faltante">>)]

\* A /test handler from the arrival of the request.  /test/send-survey
\* takes the two records from the body.
HandleTest(v, route, l, token, now, uuid) ==
    IF route = TEST_SEND
    THEN RunFrom(v, [l EXCEPT !.dealData = Get(l.body, IF v = P1 THEN "dealData"
                                                        ELSE "surveyData"),
                              !.contactData = Get(l.body, "contactData")],
                 1, now, uuid)
    ELSE IF missingTestInput(v, route, l.body, token)
    THEN Respond(l, 400, test_400(route))
    ELSE RunFrom(v, [l EXCEPT !.hubspotToken = token], 1, now, uuid)

\* The handler from the arrival of the request: the validation of the
\* body, the check of the CRM token, then the first step.
Handle(v, route, body, token, now, uuid) ==
    LET l == [Idle EXCEPT !.route = route, !.body = body]
    IN  IF route \notin {WEBHOOK, HUBSPOT}
        THEN HandleTest(v, route, l, token, now, uuid)
        ELSE IF route = WEBHOOK /\ missingIds(body)
        THEN Respond(l, 400, webhook_400(v, body))
        ELSE IF route = HUBSPOT /\ missingData(body)
        THEN Respond(l, 400, hubspot_400(v, body))
        ELSE IF noToken(token) THEN Respond(l, 500, token_500)
        ELSE RunFrom(v, [l EXCEPT !.hubspotToken = token], 1, now, uuid)

\* The awaited call is over: "ok" if its function returned, "failed" if
\* it threw.
Settled(l, ret) ==
    [l EXCEPT !.calls[Len(l.calls)].status = IF ret.ok THEN "ok" ELSE "failed"]

\* Returned with the rejection swallowed: the handler goes on.
Returned_ignoreFailure(v, l, ret, now, uuid) ==
    RunFrom(v, Bind(Settled(l, ret), CurrentCall(l).fn,
                    IF ret.ok THEN ret.value ELSE Undef),
            l.step + 1, now, uuid)

\* Returned with the failed step issued again.
Returned_retry(v, l, ret, now, uuid) ==
    IF ret.ok
    THEN RunFrom(v, Bind(Settled(l, ret), CurrentCall(l).fn, ret.value),
                 l.step + 1, now, uuid)
    ELSE RunFrom(v, Settled(l, ret), l.step, now, uuid)

\* await f(...) returned or threw ret: the result is bound and the next
\* step runs, or the catch block runs.
Returned(v, l, ret, now, uuid) ==
    IF ret.ok
    THEN RunFrom(v, Bind(Settled(l, ret), CurrentCall(l).fn, ret.value),
                 l.step + 1, now, uuid)
    ELSE catch(Settled(l, ret), ret.error)

\* The handler resumed by the outcome of the call it awaits.
Resume(v, l, outcome, cs, ds, now, uuid) ==
    Returned(v, l,
             IF outcome \in FailureOutcomes THEN Throw(AxiosError(outcome))
             ELSE StepReturn(v, CurrentCall(l).fn,
                             ResponseData(CurrentCall(l), outcome, cs, ds)),
             now, uuid)

(***************************************************************************)
(* The state machine.                                                      *)
(***************************************************************************)
MaxInvocations == 2
Slots == 1..MaxInvocations

id1 == Str(<<"1">>)
id2 == Str(<<"2">>)
id3 == Str(<<"3">>)
id4 == Str(<<"4">>)

\* The CRM at the start: contact 2 has no idnps yet, contact 4 has one and
\* a fechamail that is no date; deals 1 and 2 exist; no record has id 3.
InitialContacts ==
    (id2 :> [contact_id |-> Str(<<"7", "7">>), firstname |-> Str(<<"J", "a", "n", "e">>),
             email |-> Empty, email_principal |-> Str(<<"j", "@", "x">>),
             fechamail |-> Str(<<"5", "/", "1", "/", "2", "0", "2", "4">>),
             valornps |-> Str(<<"9">>), genero |-> Str(<<" ", "F", " ">>),
             comentario |-> Str(<<" ">>), idnps |-> Null])
    @@ (id4 :> [contact_id |-> Str(<<"7", "8">>), firstname |-> Str(<<"A", "l">>),
                email |-> Str(<<"a", "@", "x">>),
                fechamail |-> Str(<<"a", "b", "c">>),
                fechaencuesta |-> Str(<<"0", "5", "-", "J", "A", "N", "-", "2", "4">>),
                valornps |-> Str(<<"a", "b", "c">>), idnps |-> Str(<<"X">>)])

InitialDeals ==
    (id1 :> [concepto |-> Str(<<"A">>), centro |-> Str(<<"S", "1">>),
             local |-> Str(<<"L">>), provincia |-> Str(<<"P">>)])
    @@ (id2 :> [concepto |-> Str(<<"B">>), local |-> Str(<<"L", "2">>),
                provincia_homologada |-> Str(<<"H">>), valornps |-> Str(<<"8">>)])

\* The request bodies tried.
Bodies(route) ==
    IF route = WEBHOOK
    THEN [dealId : {Undef, Empty, id1, id3}, contactId : {Undef, id2, id3, id4}]
    ELSE [id : {Undef, id1, id2, id3},
          data : {Undef, Obj(<< >>),
                  Obj([idnps |-> Str(<<"Z">>), fechaencuesta |-> Null])}]

NotCalled == [ok |-> FALSE, error |-> Text(<<"not", "called">>)]

Init ==
    /\ script \in Scripts
    /\ HUBSPOT_TOKEN \in {Undef, Str(<<"k">>)}
    /\ contacts = InitialContacts
    /\ deals = InitialDeals
    /\ uuids = 0
    /\ inv = [r \in Slots |-> Idle]
    /\ composeIn = Undef
    /\ composeOut = NotCalled
    /\ composeAgain = NotCalled

\* HUBSPOT_TOKEN is set in the environment of the running process.
ConfigureToken ==
    /\ HUBSPOT_TOKEN = Undef
    /\ HUBSPOT_TOKEN' = Str(<<"k">>)
    /\ UNCHANGED <<script, contacts, deals, uuids, inv, composeIn, composeOut, composeAgain>>

\* uuidv4() was called if the payload just composed carries its value.
UuidsAfter(l, l2, uuid) ==
    IF l2.surveyPayload # l.surveyPayload /\ l2.surveyPayload.idnps = uuid
    THEN uuids + 1 ELSE uuids

\* A request arrives and its handler runs to its first await or response.
Receive(r, route, body) ==
    /\ inv[r].pc = "idle"
    /\ r > 1 => inv[r - 1].pc # "idle"
    /\ inv' = [inv EXCEPT ![r] =
                  Handle(script, route, body, HUBSPOT_TOKEN, Today, Uuid(uuids + 1))]
    /\ uuids' = UuidsAfter(inv[r], inv'[r], Uuid(uuids + 1))
    /\ UNCHANGED <<script, HUBSPOT_TOKEN, contacts, deals, composeIn, composeOut, composeAgain>>

\* The CRM's records of an object type after a request with an outcome.
StoreAfter(object, store, req, outcome) ==
    IF IsPatch(req) /\ outcome = "ok" /\ req.url[2] = object
    THEN [store EXCEPT ![req.id] = Patched(@, req.data.o)]
    ELSE store

\* The call an invocation awaits completes; a PATCH that succeeded has
\* changed the CRM's record; the handler runs to its next await or response.
Complete(r, outcome) ==
    /\ inv[r].pc = "await"
    /\ outcome \in Outcomes(CurrentCall(inv[r]), contacts, deals)
    /\ inv' = [inv EXCEPT ![r] =
                  Resume(script, inv[r], outcome, contacts, deals, Today, Uuid(uuids + 1))]
    /\ uuids' = UuidsAfter(inv[r], inv'[r], Uuid(uuids + 1))
    /\ contacts' = StoreAfter("contacts", contacts, CurrentCall(inv[r]), outcome)
    /\ deals' = StoreAfter("deals", deals, CurrentCall(inv[r]), outcome)
    /\ UNCHANGED <<script, HUBSPOT_TOKEN, composeIn, composeOut, composeAgain>>

Next ==
    \/ ConfigureToken
    \/ \E r \in Slots : \E route \in Routes(script) : \E body \in Bodies(route) :
            Receive(r, route, body)
    \/ \E r \in Slots : \E outcome \in {"ok", "no_access_token"} \cup FailureOutcomes :
            Complete(r, outcome)

Spec == Init /\ [][Next]_vars

(***************************************************************************)
(* The diagnostic routes: requests to /test/deal-data, /test/contact-data  *)
(* and /test/send-survey of the scripts that have them.                    *)
(***************************************************************************)
TestBodies(route) ==
    CASE route = TEST_DEAL -> [dealId : {Undef, id1, id3}]
      [] route = TEST_CONTACT -> [contactId : {Undef, id2, id3}]
      [] OTHER -> [surveyData : {Undef, InitialDeals[id2]},
                   dealData : {Undef, InitialDeals[id1]},
                   contactData : {Undef, InitialContacts[id2], InitialContacts[id4]}]

InitTest ==
    /\ Init
    /\ TestRoutes(script) # {}

NextTest ==
    \/ ConfigureToken
    \/ \E r \in Slots : \E route \in TestRoutes(script) :
          \E body \in TestBodies(route) : Receive(r, route, body)
    \/ \E r \in Slots : \E outcome \in {"ok", "no_access_token"} \cup FailureOutcomes :
          Complete(r, outcome)

SpecTest == InitTest /\ [][NextTest]_vars

(***************************************************************************)
(* prepareSurveyPayload called directly, on records drawn from sets of     *)
(* values: a property is absent (undefined), null, or a string; a number   *)
(* is what a JSON body can also carry.                                     *)
(***************************************************************************)
IdnpsValues ==
    {Undef, Null, Empty, Str(<<" ">>), Str(<<"X">>), Str(<<" ", "X", " ">>)}

FechaEncuestaValues ==
    {Undef, Empty, Str(<<"0", "5", "-", "J", "A", "N", "-", "2", "4">>)}

\* The fechaencuesta of the deal record (the scripts of part_000 keep the
\* survey's properties on the deal).
DealFechaValues ==
    {Undef, Str(<<"0", "1", "-", "F", "E", "B", "-", "2", "3">>)}

FechaMailValues ==
    {Undef, Str(<<"5", "/", "1", "/", "2", "0", "2", "4">>), Str(<<"a", "b", "c">>),
     Str(<<"5", "/", "1", "3", "/", "2", "0", "2", "4">>)}

AnswerValues ==
    {Undef, Null, Empty, Str(<<" ">>), Str(<<" ", "h", "i", " ">>), Str(<<"7">>),
     Str(<<" ", "4", "2", "x">>), Num(7)}

PrimaryValues == {Undef, Empty, Str(<<"A">>)}
SecondaryValues == {Undef, Str(<<"B">>)}

Dates == {Today, [date |-> 25, month |-> 0, fullYear |-> 2005]}

ContactFields ==
    ContactProperties(API) \cup ContactProperties(P1) \cup ContactProperties(P0A)

DealFields == DealProperties(API) \cup DealProperties(P0A) \cup {"localmcu"}

\* The records of an input: every answer property carries the same value,
\* a preferred property (email, provincia_homologada, centro, localmcu)
\* carries primary and its fallback (email_principal, provincia, local)
\* carries secondary; the two records have their own fechaencuesta.
ContactRecord(in) ==
    [k \in ContactFields |->
        CASE k = "idnps" -> in.idnps
          [] k = "fechaencuesta" -> in.fechaencuesta
          [] k = "fechamail" -> in.fechamail
          [] k = "email" -> in.primary
          [] k = "email_principal" -> in.secondary
          [] OTHER -> in.answer]

DealRecord(in) ==
    [k \in DealFields |->
        CASE k \in {"provincia_homologada", "centro", "localmcu"} -> in.primary
          [] k \in {"provincia", "local"} -> in.secondary
          [] k = "fechaencuesta" -> in.dealFecha
          [] OTHER -> in.answer]

ComposeInputs ==
    [idnps : IdnpsValues, fechaencuesta : FechaEncuestaValues,
     dealFecha : DealFechaValues,
     fechamail : FechaMailValues, answer : AnswerValues,
     primary : PrimaryValues, secondary : SecondaryValues, now : Dates]

ComposeInit ==
    /\ script \in Scripts \ {P2}
    /\ HUBSPOT_TOKEN = Undef
    /\ contacts = InitialContacts
    /\ deals = InitialDeals
    /\ uuids = 0
    /\ inv = [r \in Slots |-> Idle]
    /\ composeIn \in ComposeInputs
    /\ composeOut = NotCalled
    /\ composeAgain = NotCalled

\* prepareSurveyPayload(...) on the records of an input; uuid is what
\* uuidv4() returns if the call reaches it.
Called(in, uuid) ==
    prepareSurveyPayload(script,
        [Idle EXCEPT !.contactData = ContactRecord(in), !.dealData = DealRecord(in)],
        in.now, uuid)

\* uuidv4() was called if the payload returned carries its value.
UuidsUsed(out, uuid) ==
    IF out.ok /\ out.value.idnps = uuid THEN uuids + 1 ELSE uuids

\* prepareSurveyPayload is called on the records of the input.
Compose ==
    /\ composeOut = NotCalled
    /\ composeOut' = Called(composeIn, Uuid(uuids + 1))
    /\ uuids' = UuidsUsed(composeOut', Uuid(uuids + 1))
    /\ UNCHANGED <<script, HUBSPOT_TOKEN, contacts, deals, inv, composeIn, composeAgain>>

\* prepareSurveyPayload is called a second time, on the same records and
\* at the same time.
ComposeAgain ==
    /\ composeOut # NotCalled
    /\ composeAgain = NotCalled
    /\ composeAgain' = Called(composeIn, Uuid(uuids + 1))
    /\ uuids' = UuidsUsed(composeAgain', Uuid(uuids + 1))
    /\ UNCHANGED <<script, HUBSPOT_TOKEN, contacts, deals, inv, composeIn, composeOut>>

SpecCompose == ComposeInit /\ [][Compose \/ ComposeAgain]_vars

(***************************************************************************)
(* Properties of prepareSurveyPayload, under SpecCompose.                  *)
(***************************************************************************)
\* The keys of the object literal each prepareSurveyPayload returns.
CommonKeys ==
    {"idnps", "fechaencuesta", "valornps", "concepto", "local", "provincia",
     "region", "identificacion", "nombres", "apellidos", "mejoras",
     "comentario", "telefono", "email", "fechaenvio", "genero", "edad", "ropa",
     "zapatos", "talla_ropa", "adolecentes_adultos", "infantes", "ninos",
     "talla_zapatos", "actividad", "actividad_otros"}

PayloadKeys(v) ==
    IF v = API THEN CommonKeys \cup {"fecha_encuesta", "centro"}
    ELSE CommonKeys \cup {"nrodocumento", "localmcu"}

\* A string that is not empty once trimmed.
NonBlank(x) == x.t = "string" /\ trim(x.s) # << >>

\* A value uuidv4() has returned.
Generated(x) == x \in {Uuid(n) : n \in 1..uuids}

\* C8: when the contact record carries a non-empty idnps X the composed
\* payload's idnps is X, and an identifier is generated only when the
\* contact's idnps is absent or empty.
C8_IdnpsReused ==
    composeOut.ok =>
        /\ NonBlank(composeIn.idnps) => composeOut.value.idnps = composeIn.idnps
        /\ Generated(composeOut.value.idnps) => ~NonBlank(composeIn.idnps)

\* C9: every payload prepareSurveyPayload returns has the full set of keys
\* of its script, each with a string, an integer or null as its value,
\* whichever source properties are missing.
C9_PayloadComplete ==
    composeOut.ok =>
        /\ DOMAIN composeOut.value = PayloadKeys(script)
        /\ \A k \in DOMAIN composeOut.value :
              /\ composeOut.value[k].t \in {"string", "number", "null"}
              /\ composeOut.value[k].t = "number" => composeOut.value[k].n \in Int

\* A payload composed from records none of whose properties is present.
C9_Witness ==
    /\ composeOut.ok
    /\ composeIn.idnps = Undef /\ composeIn.fechaencuesta = Undef
    /\ composeIn.fechamail = Undef /\ composeIn.answer = Undef
    /\ composeIn.primary = Undef /\ composeIn.secondary = Undef

(***************************************************************************)
(* Properties of the handlers, under Spec.                                 *)
(***************************************************************************)
Webhooks == {r \in Slots : inv[r].route = WEBHOOK}

\* The positions, in an invocation's calls, of the calls of function fn.
CallsOf(l, fn) == {i \in 1..Len(l.calls) : l.calls[i].fn = fn}

\* A call of fn that succeeded, before position n of the invocation's calls.
OkBefore(l, fn, n) == \E i \in CallsOf(l, fn) : i < n /\ l.calls[i].status = "ok"

\* A call of fn that succeeded.
Succeeded(l, fn) == OkBefore(l, fn, Len(l.calls) + 1)

\* How a 400 says that a field was received, or was not.
Affirms(flag) == flag \in {Bool(TRUE), Text(<<"true">>), Text(<<"check-mark">>)}
Denies(flag) == flag \in {Bool(FALSE), Text(<<"false">>), Text(<<"cross-mark">>)}

\* C1: a webhook request whose body lacks a truthy dealId or contactId is
\* answered 400, the body names dealId and contactId as required and says
\* for each whether it was received, and no outbound call is made.
C1_MissingIds ==
    \A r \in Webhooks :
        LET l == inv[r]
            dealId == Get(l.body, "dealId")
            contactId == Get(l.body, "contactId")
        IN  (~Truthy(dealId) \/ ~Truthy(contactId)) =>
                /\ l.pc = "done"
                /\ l.res.status = 400
                /\ DOMAIN l.res.body.required.o = {"dealId", "contactId"}
                /\ IF Truthy(dealId) THEN Affirms(l.res.body.received.o.dealId)
                   ELSE Denies(l.res.body.received.o.dealId)
                /\ IF Truthy(contactId) THEN Affirms(l.res.body.received.o.contactId)
                   ELSE Denies(l.res.body.received.o.contactId)
                /\ l.calls = << >>

\* A webhook request with a contactId and no dealId has been answered.
C1_Witness ==
    \E r \in Webhooks :
        /\ ~Truthy(Get(inv[r].body, "dealId"))
        /\ Truthy(Get(inv[r].body, "contactId"))
        /\ inv[r].res.status = 400

\* C2: in a webhook invocation a PATCH of a CRM record is issued only
\* after the survey submission of that invocation has succeeded.
C2_WriteBackAfterSubmission ==
    \A r \in Webhooks :
        \A i \in 1..Len(inv[r].calls) :
            IsPatch(inv[r].calls[i]) => OkBefore(inv[r], "sendSurveyToAPI", i)

C4_FailureAborts ==
    \A r \in Webhooks :
        \A i \in 1..Len(inv[r].calls) :
            inv[r].calls[i].status = "failed" =>
                /\ i = Len(inv[r].calls)
                /\ inv[r].pc = "done"
                /\ inv[r].res.status = 500

\* A webhook invocation whose second outbound call failed.
C4_Witness ==
    \E r \in Webhooks :
        /\ Len(inv[r].calls) = 2
        /\ inv[r].calls[2].status = "failed"

Envelope == {"error", "details", "timestamp"}

\* C5 as claimed: every 500 of the webhook carries error, details and
\* timestamp, whatever its cause.
C5_EveryEnvelope ==
    \A r \in Webhooks :
        inv[r].res.status = 500 => Envelope \subseteq DOMAIN inv[r].res.body

\* C5, amended: a 500 of the webhook caused by a step that failed (record
\* not found, authentication failure, upstream failure, or a throw of the
\* composition) carries error, details and timestamp; the 500 for an
\* unconfigured CRM token carries error alone.
C5_CatchEnvelope ==
    \A r \in Webhooks :
        inv[r].res.status = 500 =>
            IF ~Truthy(inv[r].hubspotToken)
            THEN DOMAIN inv[r].res.body = {"error"}
            ELSE Envelope \subseteq DOMAIN inv[r].res.body

\* A 500 for a call that failed with no response at all: details is the
\* error's message.
C5_Witness ==
    \E r \in Webhooks :
        /\ inv[r].res.status = 500
        /\ inv[r].calls # << >>
        /\ inv[r].res.body.details = AxiosError("network_error").message

ValidBody(l) ==
    IF l.route = WEBHOOK THEN ~missingIds(l.body) ELSE ~missingData(l.body)

\* C6: a request with valid fields that arrives at /api/webhook or
\* /api/hubspot while HUBSPOT_TOKEN is not configured is answered 500 with
\* no outbound call; one that arrives while it is configured proceeds to
\* its first outbound call.
C6_TokenCheckedPerRequest ==
    [][\A r \in Slots :
          (inv[r].pc = "idle" /\ inv'[r].pc # "idle" /\ ValidBody(inv'[r])) =>
              IF Truthy(HUBSPOT_TOKEN)
              THEN /\ inv'[r].pc = "await"
                   /\ Len(inv'[r].calls) = 1
              ELSE /\ inv'[r].pc = "done"
                   /\ inv'[r].res.status = 500
                   /\ inv'[r].calls = << >>]_vars

\* A valid request was refused for the missing token and a later one, after
\* the token was configured, has made an outbound call.
C6_Witness ==
    \E r, q \in Slots :
        /\ inv[r].res.status = 500 /\ inv[r].calls = << >>
        /\ ValidBody(inv[r])
        /\ inv[q].calls # << >>

\* The function whose completion a step flag of the 200 reports.
FlagStep(flag) ==
    CASE flag = "contactDataRetrieved" -> "getContactData"
      [] flag \in {"dealDataRetrieved", "surveyDataRetrieved"} -> "getDealData"
      [] flag = "contactUpdated" -> "updateContactData"
      [] flag = "authTokenObtained" -> "getAuthToken"
      [] OTHER -> "sendSurveyToAPI"

\* C7: a 200 of the webhook says success, echoes the request's dealId and
\* contactId, and is sent only when both fetches, the token request, the
\* survey submission and any write-back have succeeded; each step flag it
\* carries is for a step that completed in the invocation.
C7_SuccessMeansAllSteps ==
    \A r \in Webhooks :
        LET l == inv[r]
        IN  l.res.status = 200 =>
                /\ l.res.body.success = Bool(TRUE)
                /\ l.res.body.dealId = Get(l.body, "dealId")
                /\ l.res.body.contactId = Get(l.body, "contactId")
                /\ \A i \in 1..Len(l.calls) : l.calls[i].status = "ok"
                /\ \A fn \in {"getDealData", "getContactData", "getAuthToken",
                              "sendSurveyToAPI"} : Succeeded(l, fn)
                /\ \A flag \in DOMAIN l.res.body.steps.o :
                      Succeeded(l, FlagStep(flag))

\* A webhook invocation has answered 200.
C7_Witness == \E r \in Webhooks : inv[r].res.status = 200

\* The word by which a message names the object type of a search.
TypeWord(req) == IF req.url[2] = "contacts" THEN "contacto" ELSE "negocio"

\* C10: when a CRM search returns no result the error names the record
\* type looked up and the id that was not found, and the webhook answers
\* 500 carrying that message.
C10_NotFoundNamesTypeAndId ==
    \A r \in Webhooks :
        LET l == inv[r]
        IN  (/\ l.calls # << >>
             /\ IsSearch(CurrentCall(l))
             /\ CurrentCall(l).status = "failed"
             /\ l.res.body.details.t = "text"
             /\ l.res.body.details \notin {AxiosError(o).message : o \in FailureOutcomes})
            => /\ l.res.status = 500
               /\ \E i \in 1..Len(l.res.body.details.words) :
                     l.res.body.details.words[i] = TypeWord(CurrentCall(l))
               /\ \E i \in 1..Len(l.res.body.details.args) :
                     l.res.body.details.args[i] = CurrentCall(l).id

\* C11: when the token endpoint's response carries no access_token,
\* getAuthToken throws: the call is settled as failed, the webhook answers
\* 500 and the invocation has submitted no survey; an invocation that has
\* answered does nothing more.
C11_NoAccessToken ==
    [][\A r \in Slots :
          /\ Complete(r, "no_access_token") =>
                /\ CurrentCall(inv'[r]).fn = "getAuthToken"
                /\ CurrentCall(inv'[r]).status = "failed"
                /\ inv'[r].pc = "done"
                /\ inv'[r].res.status = 500
                /\ CallsOf(inv'[r], "sendSurveyToAPI") = {}
          /\ inv[r].pc = "done" => inv'[r] = inv[r]]_vars

\* A webhook invocation has answered 500 for a token response without
\* access_token.
C11_Witness ==
    \E r \in Webhooks :
        /\ inv[r].res.status = 500
        /\ inv[r].calls # << >>
        /\ CurrentCall(inv[r]).fn = "getAuthToken"
        /\ inv[r].res.body.details = Text(NoAuthToken(script))

Hubspots == {r \in Slots : inv[r].route = HUBSPOT}

\* C12: /api/hubspot answers 400 with no outbound call when id or data is
\* falsy; otherwise, with the CRM token configured, it issues exactly one
\* call, a PATCH of record id whose properties are the data of the body;
\* it answers 200 with propertiesUpdated the number of keys of data when
\* the PATCH succeeded and 500 when it failed.
C12_HubspotPassthrough ==
    \A r \in Hubspots :
        LET l == inv[r]
            id == Get(l.body, "id")
            data == Get(l.body, "data")
        IN  IF ~Truthy(id) \/ ~Truthy(data)
            THEN l.pc = "done" /\ l.res.status = 400 /\ l.calls = << >>
            ELSE Truthy(l.hubspotToken) =>
                    /\ Len(l.calls) = 1
                    /\ l.calls[1].method = "PATCH"
                    /\ l.calls[1].url[1] = "crm"
                    /\ l.calls[1].id = id
                    /\ l.calls[1].data = data
                    /\ l.calls[1].status = "inflight" => l.pc = "await"
                    /\ l.calls[1].status = "ok" =>
                          /\ l.pc = "done"
                          /\ l.res.status = 200
                          /\ l.res.body.propertiesUpdated
                                = Num(Cardinality(DOMAIN data.o))
                    /\ l.calls[1].status = "failed" =>
                          l.pc = "done" /\ l.res.status = 500

\* /api/hubspot has answered 200 for a PATCH of two properties.
C12_Witness ==
    \E r \in Hubspots :
        /\ inv[r].res.status = 200
        /\ inv[r].res.body.propertiesUpdated = Num(2)

(***************************************************************************)
(* The sanitizers called directly.  The inputs are the strings up to a     *)
(* length over a few characters, and values that are no strings.           *)
(***************************************************************************)
MaxTextLen == 6
MaxNumeralLen == 3

Strings(alphabet, n) == UNION {[1..k -> alphabet] : k \in 0..n}

TextInputs ==
    {Str(s) : s \in Strings({" ", "h", "i"}, MaxTextLen)}
    \cup {Num(42), Num(0), Null, Undef, Bool(TRUE)}

IntegerInputs ==
    {Str(s) : s \in Strings({" ", "-", "7", "0", "a"}, MaxNumeralLen)}
    \cup {Str(<<"a", "b", "c">>), Str(<<"1", "2", "8">>), Str(<<"7", ".", "9">>),
          Num(7), Num(0), Num(-3), Null, Undef}

SanitizeInit ==
    /\ script \in {API, P0A, P1}
    /\ HUBSPOT_TOKEN = Undef
    /\ contacts = InitialContacts
    /\ deals = InitialDeals
    /\ uuids = 0
    /\ inv = [r \in Slots |-> Idle]
    /\ \/ composeIn \in [fn : {"sanitizeText"}, value : TextInputs]
       \/ /\ script = P1
          /\ composeIn \in [fn : {"sanitizeInteger"}, value : IntegerInputs]
    /\ composeOut = NotCalled
    /\ composeAgain = NotCalled

\* The sanitizer is called on the input.
Sanitize ==
    /\ composeOut = NotCalled
    /\ composeOut' = Return(IF composeIn.fn = "sanitizeText"
                            THEN sanitizeText(composeIn.value)
                            ELSE sanitizeInteger(composeIn.value))
    /\ UNCHANGED <<script, HUBSPOT_TOKEN, contacts, deals, uuids, inv, composeIn,
                   composeAgain>>

SpecSanitize == SanitizeInit /\ [][Sanitize]_vars

(***************************************************************************)
(* Properties of the payload's fields, under SpecCompose.                  *)
(***************************************************************************)
\* C13: in the composed payload provincia is the deal's
\* provincia_homologada when that is non-empty and otherwise the deal's
\* provincia, and local is the deal's centro when that is non-empty and
\* otherwise the deal's local ("" when the fallback is absent too).
C13_LocationPreference ==
    composeOut.ok =>
        LET expected == Or(composeIn.primary, Or(composeIn.secondary, Empty))
        IN  /\ composeOut.value.provincia = expected
            /\ composeOut.value.local = expected

FreeTextKeys ==
    {"mejoras", "comentario", "genero", "ropa", "zapatos", "talla_ropa",
     "adolecentes_adultos", "infantes", "ninos", "actividad", "actividad_otros"}

\* A string with no white space at either end.
Trimmed(x) == x.t = "string" /\ trim(x.s) = x.s

\* C14: every free-text answer field of the composed payload is the
\* sanitizer's result for its source value: null, or a non-empty string
\* with no leading or trailing white space.
C14_FreeTextSanitized ==
    composeOut.ok =>
        \A k \in FreeTextKeys :
            /\ composeOut.value[k] = sanitizeText(composeIn.answer)
            /\ \/ composeOut.value[k] = Null
               \/ composeOut.value[k] # Empty /\ Trimmed(composeOut.value[k])

\* DD-MMM-YY of the dates tried, written out.
DDMMMYY(now) ==
    IF now = Today THEN Str(<<"0", "6", "-", "N", "O", "V", "-", "2", "6">>)
    ELSE Str(<<"2", "5", "-", "J", "A", "N", "-", "0", "5">>)

\* C15: the payload's fechaencuesta is the contact record's fechaencuesta
\* when that is non-empty, and otherwise the current date as DD-MMM-YY.
C15_FechaEncuesta ==
    composeOut.ok =>
        composeOut.value.fechaencuesta =
            IF Truthy(composeIn.fechaencuesta) THEN composeIn.fechaencuesta
            ELSE DDMMMYY(composeIn.now)

(***************************************************************************)
(* Further properties of the handlers, under Spec.                         *)
(***************************************************************************)
\* The positions of the calls an invocation made to an endpoint.
CallsTo(l, method, url) ==
    {i \in 1..Len(l.calls) : l.calls[i].method = method /\ l.calls[i].url = url}

\* The outbound steps of the webhook, by endpoint.
WebhookEndpoints ==
    {<<"POST", <<"crm", "deals", "search">>>>,
     <<"POST", <<"crm", "contacts", "search">>>>,
     <<"POST", <<"ext", "token">>>>,
     <<"POST", <<"ext", "encuesta">>>>,
     <<"PATCH", <<"crm", "contacts">>>>,
     <<"PATCH", <<"crm", "deals">>>>}

\* C16: in one webhook invocation each outbound step is issued at most
\* once; on the success path both searches, the token request and the
\* survey post are issued exactly once each, and the script's patch (if
\* it has one) once; a call that failed is followed by no other call.
C16_AtMostOnce ==
    \A r \in Webhooks :
        LET l == inv[r]
        IN  /\ \A e \in WebhookEndpoints : Cardinality(CallsTo(l, e[1], e[2])) <= 1
            /\ \A i \in 1..Len(l.calls) :
                  <<l.calls[i].method, l.calls[i].url>> \in WebhookEndpoints
            /\ l.res.status = 200 =>
                  /\ \A e \in WebhookEndpoints :
                        e[1] = "POST" => Cardinality(CallsTo(l, e[1], e[2])) = 1
                  /\ Cardinality({i \in 1..Len(l.calls) : IsPatch(l.calls[i])})
                        = IF script \in {API, P0A} THEN 1 ELSE 0
            /\ \A i \in 1..Len(l.calls) :
                  l.calls[i].status = "failed" => i = Len(l.calls)

\* A webhook invocation that patches a record has answered 200.
C16_Witness ==
    \E r \in Webhooks :
        /\ inv[r].res.status = 200
        /\ \E i \in 1..Len(inv[r].calls) : IsPatch(inv[r].calls[i])

(***************************************************************************)
(* Properties of the diagnostic routes, under SpecTest.                    *)
(***************************************************************************)
Tests == {r \in Slots : inv[r].route \in {TEST_DEAL, TEST_CONTACT, TEST_SEND}}

\* C17 as claimed: no /test request posts a survey to the external API
\* or patches a CRM record (the least the claim says: it has every /test
\* request make CRM searches only).
C17_FetchOnly ==
    \A r \in Tests :
        \A i \in 1..Len(inv[r].calls) :
            /\ inv[r].calls[i].url # <<"ext", "encuesta">>
            /\ ~IsPatch(inv[r].calls[i])

\* C17, amended: no /test request patches a CRM record; /test/deal-data
\* makes at most one call, a deal search, and /test/contact-data at most
\* one call, a contact search; /test/send-survey makes no CRM call: it
\* requests the external token and then posts the survey.
C17_TestCalls ==
    \A r \in Tests :
        LET l == inv[r]
        IN  /\ \A i \in 1..Len(l.calls) : ~IsPatch(l.calls[i])
            /\ l.route = TEST_DEAL =>
                  /\ Len(l.calls) <= 1
                  /\ \A i \in 1..Len(l.calls) :
                        l.calls[i].url = <<"crm", "deals", "search">>
            /\ l.route = TEST_CONTACT =>
                  /\ Len(l.calls) <= 1
                  /\ \A i \in 1..Len(l.calls) :
                        l.calls[i].url = <<"crm", "contacts", "search">>
            /\ l.route = TEST_SEND =>
                  /\ Len(l.calls) <= 2
                  /\ \A i \in 1..Len(l.calls) :
                        l.calls[i].url = IF i = 1 THEN <<"ext", "token">>
                                         ELSE <<"ext", "encuesta">>

\* /test/send-survey has posted a survey and answered 200.
C17_Witness ==
    \E r \in Tests :
        /\ inv[r].route = TEST_SEND
        /\ inv[r].res.status = 200
        /\ Len(inv[r].calls) = 2

(***************************************************************************)
(* Two calls of prepareSurveyPayload, under SpecCompose.                   *)
(***************************************************************************)
\* C18: two calls of prepareSurveyPayload on the same records at the same
\* time both return or both throw; the payloads have the same keys and
\* are equal in every field other than idnps, they differ in idnps only
\* by identifiers that were generated, and they are equal in every field
\* when the contact record carries a non-empty idnps.
C18_Deterministic ==
    composeAgain # NotCalled =>
        /\ composeAgain.ok = composeOut.ok
        /\ composeOut.ok =>
              /\ DOMAIN composeAgain.value = DOMAIN composeOut.value
              /\ \A k \in DOMAIN composeOut.value \ {"idnps"} :
                    composeAgain.value[k] = composeOut.value[k]
              /\ composeAgain.value.idnps # composeOut.value.idnps =>
                    /\ Generated(composeOut.value.idnps)
                    /\ Generated(composeAgain.value.idnps)
              /\ NonBlank(composeIn.idnps) => composeAgain.value = composeOut.value

(***************************************************************************)
(* Properties of the sanitizers, under SpecSanitize.                       *)
(***************************************************************************)
\* t is s without the white space at its two ends, and is not empty.
IsTrimOf(t, s) ==
    /\ t # << >>
    /\ t[1] \notin WhiteSpace
    /\ t[Len(t)] \notin WhiteSpace
    /\ \E i \in 0..(Len(s) - Len(t)) :
          /\ SubSeq(s, i + 1, i + Len(t)) = t
          /\ \A k \in 1..Len(s) : (k <= i \/ k > i + Len(t)) => s[k] \in WhiteSpace

\* C19: sanitizeText returns (it does not throw); for a string that is not
\* all white space the result is the string without the white space at its
\* ends, for any other input it is null; "  hi  " gives "hi", "" gives
\* null and 42 gives null.
C19_SanitizeText ==
    (composeIn.fn = "sanitizeText" /\ composeOut # NotCalled) =>
        LET x == composeIn.value
            y == composeOut.value
        IN  /\ composeOut.ok
            /\ IF x.t = "string" /\ \E k \in 1..Len(x.s) : x.s[k] \notin WhiteSpace
               THEN y.t = "string" /\ IsTrimOf(y.s, x.s)
               ELSE y = Null
            /\ x = Str(<<" ", " ", "h", "i", " ", " ">>) => y = Str(<<"h", "i">>)
            /\ x = Empty => y = Null
            /\ x = Num(42) => y = Null

\* sanitizeText has been called on "  hi  ".
C19_Witness ==
    /\ composeIn.fn = "sanitizeText"
    /\ composeIn.value = Str(<<" ", " ", "h", "i", " ", " ">>)
    /\ composeOut # NotCalled

\* The first character of s after its leading white space and an optional
\* sign is a digit.
HasNumeral(s) ==
    \E i \in 1..Len(s) :
        /\ IsDigit(s[i])
        /\ \E j \in 0..(i - 1) :
              /\ \A k \in 1..j : s[k] \in WhiteSpace
              /\ j + 1 < i => (j + 2 = i /\ s[j + 1] \in {"-", "+"})

\* C20: sanitizeInteger returns (it does not throw) an integer or null:
\* null for null, undefined, "" and any string that does not start with a
\* numeral; the integer n for the decimal numeral of n and for the number
\* n; "7" gives 7, "" gives null and "abc" gives null.
C20_SanitizeInteger ==
    (composeIn.fn = "sanitizeInteger" /\ composeOut # NotCalled) =>
        LET x == composeIn.value
            y == composeOut.value
        IN  /\ composeOut.ok
            /\ y = Null \/ (y.t = "number" /\ y.n \in Int)
            /\ x \in {Null, Undef, Empty} => y = Null
            /\ x.t = "string" => (y = Null <=> ~HasNumeral(x.s))
            /\ \A n \in 0..128 :
                  /\ x = Str(NatToString(n)) => y = Num(n)
                  /\ x = Str(<<"-">> \o NatToString(n)) => y = Num(-n)
            /\ x.t = "number" => y = x
            /\ x = Str(<<"7">>) => y = Num(7)
            /\ x = Str(<<"a", "b", "c">>) => y = Null

\* sanitizeInteger has been called on "abc".
C20_Witness ==
    /\ composeIn.fn = "sanitizeInteger"
    /\ composeIn.value = Str(<<"a", "b", "c">>)
    /\ composeOut # NotCalled

(***************************************************************************)
(* The record ids of the webhook's searches, under Spec.                   *)
(***************************************************************************)
\* C21: in every webhook invocation the deal search filters on the
\* request's dealId and the contact search on the request's contactId.
C21_SearchIds ==
    \A r \in Webhooks :
        \A i \in 1..Len(inv[r].calls) :
            /\ inv[r].calls[i].url = <<"crm", "deals", "search">> =>
                  inv[r].calls[i].id = Get(inv[r].body, "dealId")
            /\ inv[r].calls[i].url = <<"crm", "contacts", "search">> =>
                  inv[r].calls[i].id = Get(inv[r].body, "contactId")

(***************************************************************************)
(* The CRM after a failure of the webhook, under Spec.                     *)
(***************************************************************************)
\* A PATCH of the invocation has succeeded.
Wrote(l) == \E i \in 1..Len(l.calls) : IsPatch(l.calls[i]) /\ l.calls[i].status = "ok"

\* The script issues a PATCH before it submits the survey.
WriteCanPrecedeSubmission(v) ==
    \E i, j \in 1..Len(Steps(v, WEBHOOK)) :
        /\ i < j
        /\ Steps(v, WEBHOOK)[i] \in {"updateContactData", "axios.patch"}
        /\ Steps(v, WEBHOOK)[j] = "sendSurveyToAPI"

\* A step of a webhook invocation that has written to the CRM fails.
FailsAfterWrite(r) ==
    /\ inv[r].route = WEBHOOK
    /\ inv[r].pc = "await"
    /\ Wrote(inv[r])
    /\ inv'[r].calls[Len(inv[r].calls)].status = "failed"

\* C22: when a step of a webhook invocation fails after a PATCH of that
\* invocation has succeeded, no further call (no compensating PATCH) is
\* issued, the CRM's records are left as they are and the caller receives
\* 500; and an invocation has written without having submitted a survey
\* only in a script whose write precedes the submission.
C22_NoRollback ==
    /\ [][\A r \in Slots :
            FailsAfterWrite(r) =>
                /\ Len(inv'[r].calls) = Len(inv[r].calls)
                /\ inv'[r].pc = "done"
                /\ inv'[r].res.status = 500
                /\ contacts' = contacts
                /\ deals' = deals]_vars
    /\ [](\A r \in Webhooks :
            (Wrote(inv[r]) /\ ~Succeeded(inv[r], "sendSurveyToAPI")) =>
                WriteCanPrecedeSubmission(script))

\* A webhook invocation has answered 500 for a failure after its PATCH of
\* the contact succeeded, and the contact carries the idnps it wrote.
C22_Witness ==
    \E r \in Webhooks :
        /\ Wrote(inv[r])
        /\ CurrentCall(inv[r]).status = "failed"
        /\ inv[r].res.status = 500
        /\ contacts[Get(inv[r].body, "contactId")].idnps = inv[r].surveyPayload.idnps

(***************************************************************************)
(* The properties the webhook's write-back sets, under Spec.               *)
(***************************************************************************)
\* C23: the PATCH of a webhook invocation carries the idnps of the
\* invocation's payload and a survey date (fechaencuesta), and no other
\* property.
C23_WriteBackProperties ==
    \A r \in Webhooks :
        \A i \in 1..Len(inv[r].calls) :
            IsPatch(inv[r].calls[i]) =>
                /\ DOMAIN inv[r].calls[i].data.o = {"idnps", "fechaencuesta"}
                /\ inv[r].calls[i].data.o.idnps = inv[r].surveyPayload.idnps
                /\ inv[r].calls[i].data.o.fechaencuesta.t = "string"

(***************************************************************************)
(* Webhook requests served one after the other: a request arrives when     *)
(* every earlier invocation has sent its response.                         *)
(***************************************************************************)
ReceiveNext(r, body) ==
    /\ \A q \in 1..(r - 1) : inv[q].pc = "done"
    /\ Receive(r, WEBHOOK, body)

InitSequential ==
    /\ Init
    /\ WEBHOOK \in Routes(script)

NextSequential ==
    \/ ConfigureToken
    \/ \E r \in Slots : \E body \in Bodies(WEBHOOK) : ReceiveNext(r, body)
    \/ \E r \in Slots : \E outcome \in {"ok", "no_access_token"} \cup FailureOutcomes :
          Complete(r, outcome)

SpecSequential == InitSequential /\ [][NextSequential]_vars

\* The contact of the request has no idnps in the CRM at the start.
StartsWithoutIdnps(l) ==
    /\ Get(l.body, "contactId") \in DOMAIN InitialContacts
    /\ ~Truthy(Get(InitialContacts[Get(l.body, "contactId")], "idnps"))

\* C24: for a contact with no idnps at the start, once the write-back of
\* a webhook invocation has succeeded, every later invocation for that
\* contact (served after it) submits a payload with the idnps of that
\* invocation: no second idnps is generated for the contact.
C24_IdnpsStable ==
    \A r, q \in Webhooks :
        (/\ r < q
         /\ Get(inv[q].body, "contactId") = Get(inv[r].body, "contactId")
         /\ StartsWithoutIdnps(inv[r])
         /\ Wrote(inv[r]))
        => \A i \in CallsOf(inv[q], "sendSurveyToAPI") :
              inv[q].calls[i].data.idnps = inv[r].surveyPayload.idnps

(***************************************************************************)
(* Concurrent webhook invocations for one contact, under Spec.             *)
(***************************************************************************)
\* The idnps of the surveys an invocation has submitted.
Submitted(l) ==
    {l.calls[i].data.idnps :
        i \in {j \in CallsOf(l, "sendSurveyToAPI") : l.calls[j].status = "ok"}}

\* C25: of two webhook invocations for the same contact, which has no
\* idnps at the start, however their steps interleave, the surveys
\* submitted carry one and the same idnps, and once both have answered
\* the contact's stored idnps is the idnps of every survey submitted.
C25_ConcurrentSameIdnps ==
    \A r, q \in Webhooks :
        (/\ r # q
         /\ Get(inv[q].body, "contactId") = Get(inv[r].body, "contactId")
         /\ StartsWithoutIdnps(inv[r]))
        => /\ Cardinality(Submitted(inv[r]) \cup Submitted(inv[q])) <= 1
           /\ (inv[r].pc = "done" /\ inv[q].pc = "done") =>
                 \A x \in Submitted(inv[r]) \cup Submitted(inv[q]) :
                    contacts[Get(inv[r].body, "contactId")].idnps = x

(***************************************************************************)
(* Totality of prepareSurveyPayload, under SpecCompose.                    *)
(***************************************************************************)
\* Every property the record carries is a string or null (undefined is a
\* property the record does not carry).
StringsOrNull(record) ==
    \A k \in DOMAIN record : record[k].t \in {"string", "null", "undefined"}

\* C26: prepareSurveyPayload returns a payload, and does not throw, for
\* every deal and contact record whose properties are strings or null,
\* whatever the contact's fechamail.
C26_NeverThrows ==
    (/\ composeOut # NotCalled
     /\ StringsOrNull(ContactRecord(composeIn))
     /\ StringsOrNull(DealRecord(composeIn)))
    => composeOut.ok

(***************************************************************************)
(* Termination of the webhook: every outbound call is answered or fails    *)
(* in the end (axios settles every promise), so the completion of an       *)
(* awaited call is weakly fair.                                            *)
(***************************************************************************)
\* The call invocation r awaits is answered or fails (a call can always
\* fail, whatever it is).
Settle(r) ==
    \/ Complete(r, "network_error")
    \/ \E outcome \in {"ok", "no_access_token"} \cup FailureOutcomes :
          Complete(r, outcome)

EveryCallSettles == \A r \in Slots : WF_vars(Settle(r))

SpecLive == Spec /\ EveryCallSettles

\* C27: every webhook invocation sends a response in the end, with status
\* 400, 500 or 200; once it has sent one it sends no other and makes no
\* further outbound call; before it has sent one it has not ended.
C27_OneResponse ==
    /\ \A r \in Slots :
          (inv[r].route = WEBHOOK) ~>
              (inv[r].pc = "done" /\ inv[r].res.status \in {400, 500, 200})
    /\ [][\A r \in Slots :
            inv[r].res # NoResponse =>
                /\ inv'[r].res = inv[r].res
                /\ inv'[r].calls = inv[r].calls
                /\ inv'[r].pc = "done"]_vars
    /\ [](\A r \in Webhooks :
            /\ inv[r].res = NoResponse => inv[r].pc = "await"
            /\ inv[r].pc = "await" => CurrentCall(inv[r]).status = "inflight")

\* Two webhook invocations have answered, one 200 after its last call
\* and one 500 after a call that failed.
C27_Witness ==
    \E r, q \in Webhooks :
        /\ inv[r].res.status = 200 /\ CurrentCall(inv[r]).status = "ok"
        /\ inv[q].res.status = 500 /\ inv[q].calls # << >>
        /\ CurrentCall(inv[q]).status = "failed"

====
